---------------------------- MODULE Spec2Model ----------------------------
(***************************************************************************)
(* Model of the YouTube summarizer's transcript pipeline:                  *)
(*   - clean_transcript        (src/utils/youtube_utils.py)                *)
(*   - get_transcript and its three acquisition strategies                 *)
(*   - summarize_text and summarize_with_api (src/utils/summarizer.py)     *)
(*                                                                         *)
(* A Python str is a sequence of one-character strings.  The cross-mark    *)
(* character that starts every failure string is written "[X]" (one        *)
(* symbol); the message text that follows it is kept as one further        *)
(* symbol, since no code of the program looks inside it.                   *)
(***************************************************************************)
EXTENDS Integers, Sequences, FiniteSets, TLC

VARIABLES
    pc,                 \* the position of the operation under study
    \* clean_transcript as a pure function
    raw,                \* the argument of the call
    once,               \* clean_transcript(raw)
    twice,              \* clean_transcript(clean_transcript(raw))
    \* the Fetch Transcript button and get_transcript
    video_url,          \* the text of the URL field, get_transcript's argument
    video_id,           \* get_transcript's local video_id
    method_idx,         \* 1-based position of get_transcript's loop in methods
    attempts,           \* history: the strategies called so far, with what
                        \* each returned
    result,             \* the value get_transcript returned
    ui,                 \* what the button handler showed
    session_transcript, \* st.session_state.transcript
    \* summarize_text
    transcript,         \* the argument transcript
    max_sentences,      \* the argument max_sentences
    nltk,               \* which NLTK resources the call finds
    sentences,          \* the local sentences
    sentence_scores,    \* the items of the dict sentence_scores, in order
    top_sentences,      \* the local top_sentences after the second sort
    summary,            \* the value summarize_text returned
    \* summarize_with_api (its argument is transcript as well)
    API_KEY,            \* os.getenv("OPENROUTER_API_KEY")
    model_idx,          \* 1-based position of summarize_with_api's loop in models
    api_calls,          \* history: the models posted to so far, with what
                        \* happened to each request
    api_result,         \* the value summarize_with_api returned
    \* get_transcript_web_scraping as a pure function
    page,               \* what requests.get answered
    scraped             \* the value get_transcript_web_scraping returned

cleanVars == <<raw, once, twice>>
fetchVars == <<video_url, video_id, method_idx, attempts, result, ui,
               session_transcript>>
sumVars == <<transcript, max_sentences, nltk, sentences, sentence_scores,
             top_sentences, summary>>
apiVars == <<API_KEY, model_idx, api_calls, api_result>>
scrapeVars == <<page, scraped>>
vars == <<pc, cleanVars, fetchVars, sumVars, apiVars, scrapeVars>>

(***************************************************************************)
(* Bounds of the model.                                                    *)
(***************************************************************************)
MaxLen == 5             \* longest enumerated argument of clean_transcript
MaxIdLen == 12          \* longest video id tried in a URL
MaxSentences == 3       \* most sentences of an enumerated transcript
MaxChoice == 2          \* largest enumerated max_sentences below the default
MaxLead == 2            \* most enumerated fragments at the head of a page
MaxExtra == 1           \* most repeated fragments beyond the cap of a page

(***************************************************************************)
(* Constants of the program.                                               *)
(***************************************************************************)
VideoIdLen == 11            \* youtube_utils.py line 69
MinFragmentLen == 10        \* youtube_utils.py line 245
MaxFragments == 50          \* youtube_utils.py line 247
DefaultMaxSentences == 10   \* summarizer.py line 39
MinWordLen == 2             \* summarizer.py lines 87 and 90
StatusOk == 200             \* summarizer.py line 182
StatusNotFound == 404       \* summarizer.py line 190

(***************************************************************************)
(* Python str primitives.                                                  *)
(***************************************************************************)
Min(S) == CHOOSE m \in S : \A n \in S : m <= n

UpperCase == <<"A","B","C","D","E","F","G","H","I","J","K","L","M",
               "N","O","P","Q","R","S","T","U","V","W","X","Y","Z">>
LowerCase == <<"a","b","c","d","e","f","g","h","i","j","k","l","m",
               "n","o","p","q","r","s","t","u","v","w","x","y","z">>

\* str.lower() on one character
LowerChar(c) ==
    IF \E k \in 1..26 : UpperCase[k] = c
    THEN LowerCase[CHOOSE k \in 1..26 : UpperCase[k] = c]
    ELSE c

\* str.lower()
Lower(s) == [i \in 1..Len(s) |-> LowerChar(s[i])]

\* the characters \s matches and str.split() / str.strip() treat as blank
Whitespace == {" ", "\n", "\t"}

Digits == {"0","1","2","3","4","5","6","7","8","9"}

\* the characters of the class [.!?]
Terminators == {".", "!", "?"}

\* s[i:] for a 1-based i
Drop(s, i) == SubSeq(s, i, Len(s))

\* str.startswith
StartsWith(s, p) == Len(s) >= Len(p) /\ SubSeq(s, 1, Len(p)) = p

\* str.find: the first 1-based index at which p occurs in s, 0 if none
Find(s, p) ==
    LET at == {i \in 1..(Len(s) - Len(p) + 1) : SubSeq(s, i, i + Len(p) - 1) = p}
    IN  IF at = {} THEN 0 ELSE Min(at)

\* p in s
Contains(s, p) == Find(s, p) # 0

\* str.strip()
Strip(s) ==
    LET keep == {i \in 1..Len(s) : s[i] \notin Whitespace}
    IN  IF keep = {} THEN <<>>
        ELSE SubSeq(s, Min(keep), CHOOSE m \in keep : \A n \in keep : n <= m)

\* sep.join(parts)
RECURSIVE Join(_, _)
Join(sep, parts) ==
    IF parts = <<>> THEN <<>>
    ELSE IF Len(parts) = 1 THEN parts[1]
    ELSE parts[1] \o sep \o Join(sep, Tail(parts))

\* the end of the maximal run of characters of class cls that starts at i
RECURSIVE RunEnd(_, _, _)
RunEnd(s, i, cls) ==
    IF i < Len(s) /\ s[i + 1] \in cls THEN RunEnd(s, i + 1, cls) ELSE i

\* re.sub(cls+, rep, s): every maximal run of class cls becomes rep
RECURSIVE SubRuns(_, _, _, _)
SubRuns(s, i, cls, rep) ==
    IF i > Len(s) THEN <<>>
    ELSE IF s[i] \in cls
         THEN rep \o SubRuns(s, RunEnd(s, i, cls) + 1, cls, rep)
         ELSE <<s[i]>> \o SubRuns(s, i + 1, cls, rep)

\* re.split(cls+, s): the pieces between the maximal runs of class cls,
\* empty first and last pieces included
RECURSIVE SplitRuns(_, _, _, _)
SplitRuns(s, i, cls, piece) ==
    IF i > Len(s) THEN <<piece>>
    ELSE IF s[i] \in cls
         THEN <<piece>> \o SplitRuns(s, RunEnd(s, i, cls) + 1, cls, <<>>)
         ELSE SplitRuns(s, i + 1, cls, Append(piece, s[i]))

\* str.split(): the maximal runs of non-blank characters
SplitWords(s) == SelectSeq(SplitRuns(s, 1, Whitespace, <<>>), LAMBDA w : w # <<>>)

(***************************************************************************)
(* clean_transcript, youtube_utils.py lines 6-48.                          *)
(***************************************************************************)
\* index of the first ">" after position i, 0 if there is none
TagEnd(s, i) ==
    LET js == {j \in (i + 1)..Len(s) : s[j] = ">"}
    IN  IF js = {} THEN 0 ELSE Min(js)

\* line 14: re.sub(r'<[^>]+>', '', transcript)
RECURSIVE StripTagsFrom(_, _)
StripTagsFrom(s, i) ==
    IF i > Len(s) THEN <<>>
    ELSE IF s[i] = "<" /\ TagEnd(s, i) > i + 1
         THEN StripTagsFrom(s, TagEnd(s, i) + 1)
         ELSE <<s[i]>> \o StripTagsFrom(s, i + 1)

StripTags(s) == StripTagsFrom(s, 1)

\* the index of the ">" that ends a match of <\d{2}:\d{2}:\d{2}\.\d+> at i,
\* 0 if the pattern does not match there
TimestampEnd(s, i) ==
    IF /\ Len(s) >= i + 11
       /\ s[i] = "<"
       /\ s[i + 1] \in Digits /\ s[i + 2] \in Digits /\ s[i + 3] = ":"
       /\ s[i + 4] \in Digits /\ s[i + 5] \in Digits /\ s[i + 6] = ":"
       /\ s[i + 7] \in Digits /\ s[i + 8] \in Digits /\ s[i + 9] = "."
       /\ s[i + 10] \in Digits
       /\ RunEnd(s, i + 10, Digits) < Len(s)
       /\ s[RunEnd(s, i + 10, Digits) + 1] = ">"
    THEN RunEnd(s, i + 10, Digits) + 1
    ELSE 0

\* line 17: re.sub(r'<\d{2}:\d{2}:\d{2}\.\d+>', '', transcript)
RECURSIVE StripTimestampsFrom(_, _)
StripTimestampsFrom(s, i) ==
    IF i > Len(s) THEN <<>>
    ELSE IF TimestampEnd(s, i) # 0
         THEN StripTimestampsFrom(s, TimestampEnd(s, i) + 1)
         ELSE <<s[i]>> \o StripTimestampsFrom(s, i + 1)

StripTimestamps(s) == StripTimestampsFrom(s, 1)

\* line 24: the word at i repeats the word before it, ignoring case
IsRepeat(words, i) == i > 1 /\ Lower(words[i]) = Lower(words[i - 1])

\* lines 20-26: drop every word that repeats the word before it
RECURSIVE DedupWordsFrom(_, _)
DedupWordsFrom(words, i) ==
    IF i > Len(words) THEN <<>>
    ELSE IF IsRepeat(words, i)
         THEN DedupWordsFrom(words, i + 1)
         ELSE <<words[i]>> \o DedupWordsFrom(words, i + 1)

DedupWords(words) == DedupWordsFrom(words, 1)

\* re.sub(r'\s+', ' ', s).strip(), lines 30 and 45
CollapseWhitespace(s) == Strip(SubRuns(s, 1, Whitespace, <<" ">>))

InSeq(x, xs) == \E k \in 1..Len(xs) : xs[k] = x

\* faulty variant of UniqueSentences: a fragment seen before is kept again
UniqueSentences_KeepAll(pieces) ==
    LET trimmed == [k \in 1..Len(pieces) |-> Strip(pieces[k])]
    IN  SelectSeq(trimmed, LAMBDA f : f # <<>>)

\* lines 35-39: strip each fragment, keep the first occurrence of each
\* non-empty one
RECURSIVE UniqueSentencesFrom(_, _, _)
UniqueSentencesFrom(pieces, i, unique_pieces) ==
    IF i > Len(pieces) THEN unique_pieces
    ELSE LET sentence == Strip(pieces[i])
         IN  IF sentence # <<>> /\ ~InSeq(sentence, unique_pieces)
             THEN UniqueSentencesFrom(pieces, i + 1,
                                      Append(unique_pieces, sentence))
             ELSE UniqueSentencesFrom(pieces, i + 1, unique_pieces)

UniqueSentences(pieces) == UniqueSentencesFrom(pieces, 1, <<>>)

\* line 34: re.split(r'[.!?]+', cleaned_transcript)
SplitSentences(s) == SplitRuns(s, 1, Terminators, <<>>)

\* line 42: '. '.join(unique_sentences)
JoinSentences(unique_sentences) == Join(<<".", " ">>, unique_sentences)

\* line 46: re.sub(r'\.+', '.', final_transcript)
CollapseDots(s) == SubRuns(s, 1, {"."}, <<".">>)

clean_transcript(text) ==
    IF text = <<>> THEN text
    ELSE LET stripped           == StripTimestamps(StripTags(text))
             cleaned_words      == DedupWords(SplitWords(stripped))
             cleaned_transcript == CollapseWhitespace(Join(<<" ">>, cleaned_words))
             unique_sentences   == UniqueSentences(SplitSentences(cleaned_transcript))
         IN  CollapseDots(CollapseWhitespace(JoinSentences(unique_sentences)))

(***************************************************************************)
(* Failure strings.  Each starts with the cross mark; the text after it is *)
(* one opaque symbol (an interpolated str(e) is left out).                 *)
(***************************************************************************)
CrossMark == "[X]"

\* youtube_utils.py line 66
ErrInvalidUrlFormat ==
    <<CrossMark, " Invalid YouTube URL format. Please use a valid YouTube URL.">>
\* line 70
ErrInvalidVideoId == <<CrossMark, " Invalid video ID extracted from URL.">>
\* line 97
ErrAllMethodsFailed ==
    <<CrossMark, " All transcript methods failed. This video may not have accessible transcripts.">>
\* line 143
ErrNoSubtitles == <<CrossMark, " No subtitles found with yt-dlp.">>
\* line 146
ErrYtdlpNotInstalled ==
    <<CrossMark, " yt-dlp not installed. Please install with: pip install yt-dlp">>
\* line 148
ErrYtdlpError == <<CrossMark, " yt-dlp error: ">>
\* line 174
ErrNoVttContent == <<CrossMark, " No transcript content found in VTT.">>
\* line 208
ErrDirectApiFailed == <<CrossMark, " Direct API method failed.">>
\* line 251
ErrWebScrapingFailed == <<CrossMark, " Web scraping method failed.">>
\* line 254
ErrWebScrapingError == <<CrossMark, " Web scraping error: ">>

\* what a strategy's own failure paths return
StrategyFailureStrings ==
    {ErrNoSubtitles, ErrYtdlpNotInstalled, ErrYtdlpError, ErrNoVttContent,
     ErrDirectApiFailed, ErrWebScrapingFailed, ErrWebScrapingError}

\* the call ended with an exception instead of a value
Raised == <<"raised">>

\* a scan that found nothing to return
NoReturn == <<"no return">>

(***************************************************************************)
(* parse_vtt_content, youtube_utils.py lines 150-177.                      *)
(***************************************************************************)
\* str.split(sep) with a separator given
RECURSIVE SplitOn(_, _)
SplitOn(s, sep) ==
    LET at == Find(s, sep)
    IN  IF at = 0 THEN <<s>>
        ELSE <<SubSeq(s, 1, at - 1)>> \o SplitOn(Drop(s, at + Len(sep)), sep)

\* str.isdigit()
IsDigit(s) == s # <<>> /\ \A i \in 1..Len(s) : s[i] \in Digits

\* line 162: re.match(r'^\d+:\d+:\d+', line)
MatchesClock(line) ==
    /\ line # <<>> /\ line[1] \in Digits
    /\ LET e1 == RunEnd(line, 1, Digits)
       IN  /\ Len(line) >= e1 + 2
           /\ line[e1 + 1] = ":"
           /\ line[e1 + 2] \in Digits
           /\ LET e2 == RunEnd(line, e1 + 2, Digits)
              IN  /\ Len(line) >= e2 + 2
                  /\ line[e2 + 1] = ":"
                  /\ line[e2 + 2] \in Digits

\* lines 159-163: the stripped line is neither blank, nor a header, nor a
\* timing line, nor a cue number
IsCueText(line) ==
    /\ line # <<>>
    /\ ~StartsWith(line, <<"W","E","B","V","T","T">>)
    /\ ~StartsWith(line, <<"-","-",">">>)
    /\ ~MatchesClock(line)
    /\ ~IsDigit(line)

\* lines 156-168
RECURSIVE VttParts(_, _)
VttParts(lines, i) ==
    IF i > Len(lines) THEN <<>>
    ELSE LET line         == Strip(lines[i])
             cleaned_line == clean_transcript(line)
         IN  IF IsCueText(line) /\ cleaned_line # <<>>
             THEN <<cleaned_line>> \o VttParts(lines, i + 1)
             ELSE VttParts(lines, i + 1)

parse_vtt_content(vtt_content) ==
    LET transcript_parts == VttParts(SplitOn(vtt_content, <<"\n">>), 1)
    IN  IF transcript_parts # <<>>
        THEN Join(<<" ">>, transcript_parts)
        ELSE ErrNoVttContent

(***************************************************************************)
(* get_transcript_ytdlp, lines 103-148.  The environment's answer is       *)
(*   kind "import_error"  yt_dlp cannot be imported                        *)
(*   kind "error"         extract_info raised                              *)
(*   kind "info"          the info dict: its subtitles and its             *)
(*                        automatic_captions, flattened in iteration order *)
(*                        to tracks [lang, ext, get, text], where get is   *)
(*                        how the GET of the track's url ends              *)
(***************************************************************************)
EnglishCodes == {"en", "en-US", "en-GB"}

\* lines 122-130 and 134-141: the first English vtt track decides, unless
\* its GET answers with another status than 200
RECURSIVE FirstVttTrack(_, _)
FirstVttTrack(tracks, i) ==
    IF i > Len(tracks) THEN NoReturn
    ELSE LET t == tracks[i]
         IN  IF t.lang \in EnglishCodes /\ t.ext = "vtt" /\ t.get # "http_error"
             THEN IF t.get = "raise" THEN ErrYtdlpError
                  ELSE parse_vtt_content(t.text)
             ELSE FirstVttTrack(tracks, i + 1)

get_transcript_ytdlp(r) ==
    IF r.kind = "import_error" THEN ErrYtdlpNotInstalled
    ELSE IF r.kind = "error" THEN ErrYtdlpError
    ELSE LET uploaded == FirstVttTrack(r.subtitles, 1)
             auto     == FirstVttTrack(r.automatic_captions, 1)
         IN  IF uploaded # NoReturn THEN uploaded
             ELSE IF auto # NoReturn THEN auto
             ELSE ErrNoSubtitles

(***************************************************************************)
(* get_transcript_direct_api, lines 179-211.  The environment answers each *)
(* language's request with                                                 *)
(*   kind "raise"        requests.get raised                               *)
(*   kind "http_error"   a status other than 200, or a blank body          *)
(*   kind "parse_error"  a body that is not well-formed XML                *)
(*   kind "xml"          the texts of the document's text elements, in     *)
(*                       order (<<>> for an element without text)          *)
(***************************************************************************)
languages == <<"en", "en-US", "en-GB", "auto">>

\* lines 196-198
DirectApiParts(nodes) ==
    LET texts == SelectSeq(nodes, LAMBDA t : t # <<>>)
    IN  [k \in 1..Len(texts) |-> Strip(texts[k])]

\* lines 185-208
RECURSIVE DirectApiFrom(_, _)
DirectApiFrom(responses, i) ==
    IF i > Len(languages) THEN ErrDirectApiFailed
    ELSE IF responses[i].kind = "xml" /\ DirectApiParts(responses[i].nodes) # <<>>
         THEN Join(<<" ">>, DirectApiParts(responses[i].nodes))
         ELSE DirectApiFrom(responses, i + 1)

get_transcript_direct_api(responses) == DirectApiFrom(responses, 1)

(***************************************************************************)
(* get_transcript_web_scraping, lines 213-254.  The environment's answer   *)
(* is                                                                      *)
(*   kind "raise"        requests.get raised                               *)
(*   kind "http_error"   a status other than 200                           *)
(*   kind "page"         the page: captions says whether one of the three  *)
(*                       patterns of lines 228-232 matches it, fragments   *)
(*                       is what re.findall of the "text" pattern of line  *)
(*                       240 yields, in order of appearance                *)
(***************************************************************************)
\* faulty variant of IsValidFragment: a fragment of 10 characters passes
IsValidFragment_AtLeast(t) ==
    Len(t) >= MinFragmentLen /\ ~StartsWith(t, <<"h","t","t","p">>)

\* line 245
IsValidFragment(t) ==
    Len(t) > MinFragmentLen /\ ~StartsWith(t, <<"h","t","t","p">>)

\* xs[:n] for n >= 0
Take(xs, n) == SubSeq(xs, 1, IF n < Len(xs) THEN n ELSE Len(xs))

get_transcript_web_scraping(r) ==
    IF r.kind = "raise" THEN ErrWebScrapingError
    ELSE LET valid_transcripts ==
                 IF r.kind = "page" /\ r.captions
                 THEN SelectSeq(r.fragments, IsValidFragment)
                 ELSE <<>>
         IN  IF valid_transcripts # <<>>
             THEN Join(<<" ">>, Take(valid_transcripts, MaxFragments))
             ELSE ErrWebScrapingFailed

(***************************************************************************)
(* get_transcript, youtube_utils.py lines 50-101.                          *)
(***************************************************************************)
ShapeWatch == <<"v","=">>
ShapeShort == <<"y","o","u","t","u",".","b","e","/">>
ShapeEmbed ==
    <<"y","o","u","t","u","b","e",".","c","o","m","/","e","m","b","e","d","/">>

\* lines 59-65: one of the three shapes occurs in the URL
HasRecognizedShape(url) ==
    Contains(url, ShapeWatch) \/ Contains(url, ShapeShort) \/ Contains(url, ShapeEmbed)

\* lines 59-64, for a URL that has one of the shapes
ExtractVideoId(url) ==
    IF Contains(url, ShapeWatch)
    THEN SplitOn(SplitOn(url, ShapeWatch)[2], <<"&">>)[1]
    ELSE IF Contains(url, ShapeShort)
    THEN SplitOn(SplitOn(url, ShapeShort)[2], <<"?">>)[1]
    ELSE SplitOn(SplitOn(url, ShapeEmbed)[2], <<"?">>)[1]

\* faulty variant of ValidVideoId: an id that is too long passes
ValidVideoId_AtLeast(id) == id # <<>> /\ Len(id) >= VideoIdLen

\* line 69
ValidVideoId(id) == id # <<>> /\ Len(id) = VideoIdLen

\* lines 75-79
methods == <<"yt-dlp Method", "Direct API Method", "Web Scraping Method">>

\* line 85: the test that takes a returned value for a transcript
MethodSucceeded(returned) ==
    returned # Raised /\ ~StartsWith(returned, <<CrossMark>>)

\* faulty variant of AfterFailure: a failed strategy ends the loop
AfterFailure_Break(idx) == Len(methods) + 1

\* lines 81, 91-95: where the loop goes after a strategy that did not
\* succeed, whether it returned a failure string or raised
AfterFailure(idx) == idx + 1

\* faulty variant of ReturnedTranscript: the text is returned as fetched
ReturnedTranscript_Raw(returned) == returned

\* lines 88-90: what get_transcript returns for a strategy's text
ReturnedTranscript(returned) == clean_transcript(returned)

(***************************************************************************)
(* What the network can answer.                                            *)
(***************************************************************************)
\* 'https://www.youtube.com/watch?v='
WatchPrefix ==
    <<"h","t","t","p","s",":","/","/","w","w","w",".","y","o","u","t","u",
      "b","e",".","c","o","m","/","w","a","t","c","h","?","v","=">>

\* 'https://youtu.be/'
ShortPrefix ==
    <<"h","t","t","p","s",":","/","/","y","o","u","t","u",".","b","e","/">>

\* 'https://www.youtube.com/embed/'
EmbedPrefix ==
    <<"h","t","t","p","s",":","/","/","w","w","w",".","y","o","u","t","u",
      "b","e",".","c","o","m","/","e","m","b","e","d","/">>

\* 'https://www.youtube.com/watch?list='
PlainPrefix ==
    <<"h","t","t","p","s",":","/","/","w","w","w",".","y","o","u","t","u",
      "b","e",".","c","o","m","/","w","a","t","c","h","?","l","i","s","t",
      "=">>

\* 'dQw4w9WgXcQ_-AbCdEfG'
IdChars ==
    <<"d","Q","w","4","w","9","W","g","X","c","Q","_","-","A","b","C","d",
      "E","f","G">>

\* '&t=42s'
AmpSuffix ==
    <<"&","t","=","4","2","s">>

\* '?t=42'
QuerySuffix ==
    <<"?","t","=","4","2">>

\* 'WEBVTT\n\n1\n00:00:01.000 --> 00:00:02.000\n<c>Hello</c> <c>Hello</c> world\n\nHello world\n'
VttHello ==
    <<"W","E","B","V","T","T","\n","\n","1","\n","0","0",":","0","0",":",
      "0","1",".","0","0","0"," ","-","-",">"," ","0","0",":","0","0",":",
      "0","2",".","0","0","0","\n","<","c",">","H","e","l","l","o","<","/",
      "c",">"," ","<","c",">","H","e","l","l","o","<","/","c",">"," ","w",
      "o","r","l","d","\n","\n","H","e","l","l","o"," ","w","o","r","l","d",
      "\n">>

\* 'WEBVTT\n\n2\n00:00:01.000 --> 00:00:02.000\n\n'
VttNoCues ==
    <<"W","E","B","V","T","T","\n","\n","2","\n","0","0",":","0","0",":",
      "0","1",".","0","0","0"," ","-","-",">"," ","0","0",":","0","0",":",
      "0","2",".","0","0","0","\n","\n">>

\* 'WEBVTT\n\n<a\nb>\n'
VttSplitTag ==
    <<"W","E","B","V","T","T","\n","\n","<","a","\n","b",">","\n">>

\* 'Hello world again'
FragHello ==
    <<"H","e","l","l","o"," ","w","o","r","l","d"," ","a","g","a","i","n">>

\* 'Goodbye for now!'
FragGoodbye ==
    <<"G","o","o","d","b","y","e"," ","f","o","r"," ","n","o","w","!">>

\* 'ten  chars'
FragTenChars ==
    <<"t","e","n"," "," ","c","h","a","r","s">>

\* 'short'
FragShort ==
    <<"s","h","o","r","t">>

\* 'https://i.ytimg.com/vi/x.jpg'
FragUrl ==
    <<"h","t","t","p","s",":","/","/","i",".","y","t","i","m","g",".","c",
      "o","m","/","v","i","/","x",".","j","p","g">>

\* '<font color=red>'
FragOnlyTag ==
    <<"<","f","o","n","t"," ","c","o","l","o","r","=","r","e","d",">">>

\* ' Hello world. '
NodeHello ==
    <<" ","H","e","l","l","o"," ","w","o","r","l","d","."," ">>

\* 'Goodbye.'
NodeGoodbye ==
    <<"G","o","o","d","b","y","e",".">>

\* ' \n '
NodeBlank ==
    <<" ","\n"," ">>

\* a cue whose text starts with the cross mark
VttCrossMark ==
    <<"W","E","B","V","T","T","\n","\n",CrossMark," ","l","i","v","e","\n">>

\* a text element that starts with the cross mark
NodeCrossMark == <<CrossMark," ","l","i","v","e">>

\* "<c>" followed by the cross mark and " live"
NodeTaggedCrossMark == <<"<","c",">",CrossMark," ","l","i","v","e">>

Track(lang, ext, get, text) == [lang |-> lang, ext |-> ext, get |-> get, text |-> text]

YtdlpInfo(subtitles, automatic_captions) ==
    [kind |-> "info", subtitles |-> subtitles, automatic_captions |-> automatic_captions]

YtdlpResponses ==
    { [kind |-> "import_error", subtitles |-> <<>>, automatic_captions |-> <<>>],
      [kind |-> "error", subtitles |-> <<>>, automatic_captions |-> <<>>],
      YtdlpInfo(<<>>, <<>>),
      YtdlpInfo(<<Track("fr", "vtt", "ok", VttHello), Track("en", "json3", "ok", VttHello)>>,
                <<Track("en", "vtt", "http_error", VttHello)>>),
      YtdlpInfo(<<Track("en", "vtt", "http_error", VttHello)>>,
                <<Track("en-US", "vtt", "ok", VttHello)>>),
      YtdlpInfo(<<Track("en-GB", "vtt", "ok", VttHello)>>,
                <<Track("en", "vtt", "ok", VttNoCues)>>),
      YtdlpInfo(<<Track("en", "vtt", "raise", VttHello)>>,
                <<Track("en", "vtt", "ok", VttHello)>>),
      YtdlpInfo(<<>>, <<Track("en", "vtt", "ok", VttNoCues)>>),
      YtdlpInfo(<<>>, <<Track("en", "vtt", "ok", VttSplitTag)>>),
      YtdlpInfo(<<>>, <<Track("en", "vtt", "ok", VttCrossMark)>>) }

ApiFailure(kind) == [kind |-> kind, nodes |-> <<>>]
ApiXml(nodes) == [kind |-> "xml", nodes |-> nodes]

ApiResponses ==
    { ApiFailure("raise"), ApiFailure("http_error"), ApiFailure("parse_error"),
      ApiXml(<<<<>>>>),
      ApiXml(<<NodeBlank>>),
      ApiXml(<<NodeHello, <<>>, NodeHello, NodeGoodbye>>),
      ApiXml(<<NodeCrossMark>>),
      ApiXml(<<NodeTaggedCrossMark>>) }

\* one answer per language
ApiAnswers == [1..Len(languages) -> ApiResponses]

WebFailure(kind) == [kind |-> kind, captions |-> FALSE, fragments |-> <<>>]
WebPage(captions, fragments) ==
    [kind |-> "page", captions |-> captions, fragments |-> fragments]

WebResponses ==
    { WebFailure("raise"), WebFailure("http_error"),
      WebPage(FALSE, <<FragHello>>),
      WebPage(TRUE, <<>>),
      WebPage(TRUE, <<FragShort, FragUrl, FragTenChars>>),
      WebPage(TRUE, <<FragShort, FragHello, FragUrl, FragGoodbye, FragHello>>),
      WebPage(TRUE, <<FragOnlyTag>>) }

\* every value methods[idx] can hand back to the loop of get_transcript; a
\* strategy raises only when its own handler does
MethodOutcomes(idx) ==
    {Raised} \cup
    IF idx = 1 THEN {get_transcript_ytdlp(r) : r \in YtdlpResponses}
    ELSE IF idx = 2 THEN {get_transcript_direct_api(r) : r \in ApiAnswers}
    ELSE {get_transcript_web_scraping(r) : r \in WebResponses}

(***************************************************************************)
(* The URLs typed into the field.                                          *)
(***************************************************************************)
IdOfLen(n) == SubSeq(IdChars, 1, n)

Urls ==
    { lead \o prefix \o IdOfLen(n) \o suffix \o trail :
        lead \in {<<>>, <<" ">>},
        prefix \in {WatchPrefix, ShortPrefix, EmbedPrefix, PlainPrefix},
        n \in 0..MaxIdLen,
        suffix \in {<<>>, AmpSuffix, QuerySuffix},
        trail \in {<<>>, <<"\n">>} }
    \cup {<<>>, <<" ">>}

(***************************************************************************)
(* The Fetch Transcript button, app.py lines 59-78, and the call of        *)
(* get_transcript it makes.                                                *)
(***************************************************************************)
SumIdle ==
    /\ transcript = <<>>
    /\ max_sentences = DefaultMaxSentences
    /\ nltk = [ensure |-> TRUE, punkt |-> TRUE, stopwords |-> TRUE, wordnet |-> TRUE]
    /\ sentences = <<>>
    /\ sentence_scores = <<>>
    /\ top_sentences = <<>>
    /\ summary = <<>>

ApiIdle ==
    /\ API_KEY = <<>>
    /\ model_idx = 1
    /\ api_calls = <<>>
    /\ api_result = <<>>

ScrapeIdle ==
    /\ page = [kind |-> "http_error", captions |-> FALSE, fragments |-> <<>>]
    /\ scraped = <<>>

FetchIdle ==
    /\ video_url = <<>>
    /\ video_id = <<>>
    /\ method_idx = 1
    /\ attempts = <<>>
    /\ result = <<>>
    /\ ui = "idle"
    /\ session_transcript = <<>>

FetchInit ==
    /\ pc = "button"
    /\ video_url \in Urls
    /\ video_id = <<>>
    /\ method_idx = 1
    /\ attempts = <<>>
    /\ result = <<>>
    /\ ui = "idle"
    /\ session_transcript = <<>>
    /\ raw = <<>> /\ once = <<>> /\ twice = <<>>
    /\ SumIdle
    /\ ApiIdle
    /\ ScrapeIdle

\* app.py lines 60-61, 77-78
ClickFetch ==
    /\ pc = "button"
    /\ IF Strip(video_url) # <<>>
       THEN pc' = "get_transcript" /\ ui' = ui
       ELSE pc' = "shown" /\ ui' = "warning"
    /\ UNCHANGED <<video_url, video_id, method_idx, attempts, result,
                   session_transcript, cleanVars, sumVars, apiVars, scrapeVars>>

\* youtube_utils.py lines 53-72
ParseUrl ==
    /\ pc = "get_transcript"
    /\ LET url == Strip(video_url)
       IN  IF ~HasRecognizedShape(url)
           THEN /\ result' = ErrInvalidUrlFormat
                /\ pc' = "returned"
                /\ video_id' = video_id
           ELSE IF ~ValidVideoId(ExtractVideoId(url))
           THEN /\ result' = ErrInvalidVideoId
                /\ pc' = "returned"
                /\ video_id' = ExtractVideoId(url)
           ELSE /\ video_id' = ExtractVideoId(url)
                /\ pc' = "methods"
                /\ result' = result
    /\ UNCHANGED <<video_url, method_idx, attempts, ui, session_transcript,
                   cleanVars, sumVars, apiVars, scrapeVars>>

\* lines 81-95: one turn of the loop over methods
TryMethod ==
    /\ pc = "methods"
    /\ method_idx <= Len(methods)
    /\ \E returned \in MethodOutcomes(method_idx) :
          /\ attempts' = Append(attempts, [method   |-> methods[method_idx],
                                           returned |-> returned])
          /\ IF MethodSucceeded(returned)
             THEN /\ result' = ReturnedTranscript(returned)
                  /\ pc' = "returned"
                  /\ method_idx' = method_idx
             ELSE /\ method_idx' = AfterFailure(method_idx)
                  /\ UNCHANGED <<result, pc>>
    /\ UNCHANGED <<video_url, video_id, ui, session_transcript, cleanVars, sumVars, apiVars, scrapeVars>>

\* line 97: the loop ran out of methods
AllMethodsFailed ==
    /\ pc = "methods"
    /\ method_idx > Len(methods)
    /\ result' = ErrAllMethodsFailed
    /\ pc' = "returned"
    /\ UNCHANGED <<video_url, video_id, method_idx, attempts, ui,
                   session_transcript, cleanVars, sumVars, apiVars, scrapeVars>>

\* app.py lines 63-76
ShowResult ==
    /\ pc = "returned"
    /\ IF StartsWith(result, <<CrossMark>>)
       THEN ui' = "error" /\ session_transcript' = session_transcript
       ELSE ui' = "success" /\ session_transcript' = result
    /\ pc' = "shown"
    /\ UNCHANGED <<video_url, video_id, method_idx, attempts, result, cleanVars,
                   sumVars, apiVars, scrapeVars>>

FetchNext == ClickFetch \/ ParseUrl \/ TryMethod \/ AllMethodsFailed \/ ShowResult

SpecFetch == FetchInit /\ [][FetchNext]_vars

(***************************************************************************)
(* Arguments of clean_transcript.                                          *)
(***************************************************************************)
Alphabet == {"a", "A", "b", " ", ".", "<", ">"}

RECURSIVE StringsOfLen(_)
StringsOfLen(n) ==
    IF n = 0 THEN {<<>>}
    ELSE {Append(s, c) : s \in StringsOfLen(n - 1), c \in Alphabet}

BoundedStrings == UNION {StringsOfLen(n) : n \in 0..MaxLen}

\* "Hello world. Hello world. Goodbye."
HelloGoodbye ==
    <<"H","e","l","l","o"," ","w","o","r","l","d","."," ",
      "H","e","l","l","o"," ","w","o","r","l","d","."," ",
      "G","o","o","d","b","y","e",".">>

\* "the THE cat sat sat"
TheTheCat ==
    <<"t","h","e"," ","T","H","E"," ","c","a","t"," ",
      "s","a","t"," ","s","a","t">>

\* "<c>Hi</c><00:00:27.119> there!  Hi? there"
TaggedCue ==
    <<"<","c",">","H","i","<","/","c",">",
      "<","0","0",":","0","0",":","2","7",".","1","1","9",">",
      " ","t","h","e","r","e","!"," "," ","H","i","?"," ","t","h","e","r","e">>

NamedStrings == {HelloGoodbye, TheTheCat, TaggedCue}

CleanInputs == BoundedStrings \cup NamedStrings

(***************************************************************************)
(* The normalizer as a pure function: the argument is drawn by Init, the   *)
(* first action applies clean_transcript, the second applies it to the     *)
(* first result.                                                           *)
(***************************************************************************)
CleanInit ==
    /\ pc = "clean"
    /\ raw \in CleanInputs
    /\ once = <<>>
    /\ twice = <<>>
    /\ FetchIdle
    /\ SumIdle
    /\ ApiIdle
    /\ ScrapeIdle

Clean ==
    /\ pc = "clean"
    /\ once' = clean_transcript(raw)
    /\ pc' = "cleaned once"
    /\ UNCHANGED <<raw, twice, fetchVars, sumVars, apiVars, scrapeVars>>

CleanAgain ==
    /\ pc = "cleaned once"
    /\ twice' = clean_transcript(once)
    /\ pc' = "cleaned twice"
    /\ UNCHANGED <<raw, once, fetchVars, sumVars, apiVars, scrapeVars>>

CleanNext == Clean \/ CleanAgain

SpecClean == CleanInit /\ [][CleanNext]_vars

(***************************************************************************)
(* summarize_text, summarizer.py lines 39-131.                             *)
(*                                                                         *)
(* NLTK is a library, not code of the program.  Its functions are modelled *)
(* by what they do on the transcripts used here: plain sentences that      *)
(* start with a capital, end in a terminator and have no abbreviations.    *)
(***************************************************************************)

\* summarizer.py line 46
ErrNltkUnavailable ==
    <<CrossMark, " NLTK data not available. Please check your internet connection and try again.">>
\* line 52
ErrEmptyTranscript == <<CrossMark, " Empty transcript provided.">>
\* line 62
ErrNoSentences == <<CrossMark, " No valid sentences found in transcript.">>
\* line 95
ErrNoMeaningfulWords == <<CrossMark, " No meaningful words found for summarization.">>
\* line 126
ErrGenerationFailed == <<CrossMark, " Failed to generate summary.">>
\* line 131
ErrSummarization == <<CrossMark, " Summarization error: ">>

Letters == {LowerCase[k] : k \in 1..26} \cup {UpperCase[k] : k \in 1..26}

\* the characters \w matches
WordChars == Letters \cup Digits \cup {"_"}

\* str.isalnum()
IsAlnum(w) == w # <<>> /\ \A i \in 1..Len(w) : w[i] \in Letters \cup Digits

\* line 83: re.findall(r'\b\w+\b', s), the maximal runs of word characters
RECURSIVE RegexWordsFrom(_, _)
RegexWordsFrom(s, i) ==
    IF i > Len(s) THEN <<>>
    ELSE IF s[i] \in WordChars
         THEN <<SubSeq(s, i, RunEnd(s, i, WordChars))>>
              \o RegexWordsFrom(s, RunEnd(s, i, WordChars) + 1)
         ELSE RegexWordsFrom(s, i + 1)

RegexWords(s) == RegexWordsFrom(s, 1)

\* nltk word_tokenize: the runs of word characters, and every other
\* non-blank character as a token of its own
RECURSIVE NltkWordsFrom(_, _)
NltkWordsFrom(s, i) ==
    IF i > Len(s) THEN <<>>
    ELSE IF s[i] \in WordChars
         THEN <<SubSeq(s, i, RunEnd(s, i, WordChars))>>
              \o NltkWordsFrom(s, RunEnd(s, i, WordChars) + 1)
         ELSE IF s[i] \in Whitespace THEN NltkWordsFrom(s, i + 1)
         ELSE <<<<s[i]>>>> \o NltkWordsFrom(s, i + 1)

\* nltk sent_tokenize: a sentence ends with a run of terminators that a
\* blank or the end of the text follows; the terminators stay in it
RECURSIVE NltkSentencesFrom(_, _, _)
NltkSentencesFrom(s, i, piece) ==
    IF i > Len(s) THEN (IF piece = <<>> THEN <<>> ELSE <<piece>>)
    ELSE IF s[i] \in Terminators
         THEN LET e == RunEnd(s, i, Terminators)
                  closed == piece \o SubSeq(s, i, e)
              IN  IF e = Len(s) THEN <<closed>>
                  ELSE IF s[e + 1] \in Whitespace
                  THEN <<closed>> \o NltkSentencesFrom(s, RunEnd(s, e + 1, Whitespace) + 1, <<>>)
                  ELSE NltkSentencesFrom(s, e + 1, closed)
         ELSE NltkSentencesFrom(s, i + 1, Append(piece, s[i]))

\* line 59: the fallback split, each piece stripped, empty pieces dropped
FallbackSentences(s) ==
    LET pieces == SplitRuns(s, 1, Terminators, <<>>)
        trimmed == [k \in 1..Len(pieces) |-> Strip(pieces[k])]
    IN  SelectSeq(trimmed, LAMBDA f : f # <<>>)

\* lines 55-59: res tells which NLTK resources the call finds loaded
SplitIntoSentences(s, res) ==
    IF res.punkt THEN NltkSentencesFrom(s, 1, <<>>) ELSE FallbackSentences(s)

\* lines 79-83 and 100-103
TokenizeWords(sentence, res) ==
    IF res.punkt THEN NltkWordsFrom(Lower(sentence), 1)
    ELSE RegexWords(Lower(sentence))

\* line 73
FallbackStopWords ==
    { <<"t","h","e">>, <<"a">>, <<"a","n">>,
      <<"a","n","d">>, <<"o","r">>, <<"b","u","t">>,
      <<"i","n">>, <<"o","n">>, <<"a","t">>,
      <<"t","o">>, <<"f","o","r">>, <<"o","f">>,
      <<"w","i","t","h">>, <<"b","y">> }

\* stopwords.words('english'): every word of the fallback list is in it;
\* of its other words, those that the transcripts used here contain
NltkStopWords ==
    FallbackStopWords \cup { <<"v","e","r","y">>, <<"i","s">>, <<"i","t">> }

\* WordNetLemmatizer().lemmatize on the words that the transcripts used here
\* contain: a plural noun becomes its singular
NltkLemma(word) ==
    IF word = <<"c","a","t","s">> THEN <<"c","a","t">>
    ELSE IF word = <<"d","o","g","s">> THEN <<"d","o","g">>
    ELSE word

\* lines 68-74
StopWords(res) == IF res.stopwords THEN NltkStopWords ELSE FallbackStopWords

\* faulty variant of IsContentWord: stop words are not filtered out
IsContentWord_KeepStopWords(word, stop_words) ==
    IsAlnum(word) /\ Len(word) > MinWordLen

\* lines 86-87, 89-90: the filter of both comprehensions
IsContentWord(word, stop_words) ==
    IsAlnum(word) /\ word \notin stop_words /\ Len(word) > MinWordLen

\* lines 85-90 and 105-110: the filtered words of one sentence; a
\* lemmatizer exists when the stop-word list could be loaded
SentenceWords(sentence, res) ==
    LET kept == SelectSeq(TokenizeWords(sentence, res),
                          LAMBDA w : IsContentWord(w, StopWords(res)))
    IN  IF res.stopwords
        THEN [k \in 1..Len(kept) |-> NltkLemma(kept[k])]
        ELSE kept

\* lemmatizer.lemmatize raises LookupError when the wordnet data is
\* missing; nothing between lines 85 and 92 catches it
LemmatizerRaises(sentence_list, res) ==
    /\ res.stopwords
    /\ ~res.wordnet
    /\ \E k \in 1..Len(sentence_list) : SentenceWords(sentence_list[k], res) # <<>>

RECURSIVE Concat(_)
Concat(seqs) == IF seqs = <<>> THEN <<>> ELSE Head(seqs) \o Concat(Tail(seqs))

\* lines 77-92: Counter over the filtered words of all sentences
WordFreq(sentence_list, res) ==
    LET all == Concat([k \in 1..Len(sentence_list) |->
                          SentenceWords(sentence_list[k], res)])
    IN  [w \in {all[i] : i \in 1..Len(all)} |->
            Cardinality({i \in 1..Len(all) : all[i] = w})]

RECURSIVE SumFreq(_, _)
SumFreq(words, freq) ==
    IF words = <<>> THEN 0 ELSE freq[Head(words)] + SumFreq(Tail(words), freq)

\* line 112
Score(sentence, freq, res) == SumFreq(SentenceWords(sentence, res), freq)

\* lines 98-113: the dict sentence_scores as its items in insertion order;
\* a sentence that occurs again overwrites its own entry with the same score
RECURSIVE ScoreItemsFrom(_, _, _, _, _)
ScoreItemsFrom(sentence_list, i, items, freq, res) ==
    IF i > Len(sentence_list) THEN items
    ELSE IF \E k \in 1..Len(items) : items[k].sentence = sentence_list[i]
         THEN ScoreItemsFrom(sentence_list, i + 1, items, freq, res)
         ELSE ScoreItemsFrom(sentence_list, i + 1,
                  Append(items, [sentence |-> sentence_list[i],
                                 score    |-> Score(sentence_list[i], freq, res)]),
                  freq, res)

SentenceScores(sentence_list, res) ==
    ScoreItemsFrom(sentence_list, 1, <<>>, WordFreq(sentence_list, res), res)

\* sorted(xs, key=...): stable, ascending; keys[i] is the key of xs[i]
StableSortBy(xs, keys) ==
    LET place(i) == 1 + Cardinality({j \in 1..Len(xs) :
                          \/ keys[j] < keys[i]
                          \/ keys[j] = keys[i] /\ j < i})
    IN  [k \in 1..Len(xs) |-> xs[CHOOSE i \in 1..Len(xs) : place(i) = k]]

\* xs[:n], n of either sign
SliceTo(xs, n) ==
    IF n >= 0 THEN Take(xs, n)
    ELSE IF Len(xs) + n > 0 THEN Take(xs, Len(xs) + n) ELSE <<>>

\* list.index
IndexOf(xs, x) == Min({k \in 1..Len(xs) : xs[k] = x})

\* faulty variant of SelectTop: the cut is made without sorting by score
SelectTop_Unsorted(items, n) == SliceTo(items, n)

\* lines 116-117: sorted by score, highest first (reverse=True keeps equal
\* scores in their order), cut to max_sentences
SelectTop(items, n) == SliceTo(StableSortBy(items, [i \in 1..Len(items) |-> 0 - items[i].score]), n)

\* faulty variant of SortByPosition: the selection stays in score order
SortByPosition_Skip(items, sentence_list) == items

\* lines 120-121
SortByPosition(items, sentence_list) ==
    StableSortBy(items, [i \in 1..Len(items) |->
                            IndexOf(sentence_list, items[i].sentence)])

(***************************************************************************)
(* The arguments of summarize_text and the state of the NLTK resources.    *)
(***************************************************************************)
\* 'The and.'
SentTheAnd ==
    <<"T","h","e"," ","a","n","d",".">>

\* 'Very the!'
SentVeryThe ==
    <<"V","e","r","y"," ","t","h","e","!">>

\* 'Cats nap.'
SentCatsNap ==
    <<"C","a","t","s"," ","n","a","p",".">>

\* 'The cat sat.'
SentTheCatSat ==
    <<"T","h","e"," ","c","a","t"," ","s","a","t",".">>

\* 'A dog sat, cat?'
SentDogSatCat ==
    <<"A"," ","d","o","g"," ","s","a","t",","," ","c","a","t","?">>

\* 'the a an and or'
TheAAnAndOr ==
    <<"t","h","e"," ","a"," ","a","n"," ","a","n","d"," ","o","r">>

SentencePool == {SentTheAnd, SentVeryThe, SentCatsNap, SentTheCatSat, SentDogSatCat}

RECURSIVE SentenceSeqs(_)
SentenceSeqs(n) ==
    IF n = 0 THEN {<<>>}
    ELSE {Append(ss, s) : ss \in SentenceSeqs(n - 1), s \in SentencePool}

Transcripts ==
    {Join(<<" ">>, ss) : ss \in UNION {SentenceSeqs(n) : n \in 1..MaxSentences}}
    \cup {TheAAnAndOr, <<>>, <<" ", "\n">>}

MaxSentencesChoices == ((0 - 1)..MaxChoice) \cup {DefaultMaxSentences}

\* ensure: what ensure_nltk_data returns (False when a download raised);
\* punkt, stopwords, wordnet: whether the data is there when it is used.
\* sent_tokenize and word_tokenize both load punkt.
NltkStates ==
    {[ensure |-> FALSE, punkt |-> FALSE, stopwords |-> FALSE, wordnet |-> FALSE]}
    \cup {[ensure |-> TRUE, punkt |-> p, stopwords |-> s, wordnet |-> w] :
             p \in BOOLEAN, s \in BOOLEAN, w \in BOOLEAN}

SumInit ==
    /\ pc = "summarize_text"
    /\ transcript \in Transcripts
    /\ max_sentences \in MaxSentencesChoices
    /\ nltk \in NltkStates
    /\ sentences = <<>>
    /\ sentence_scores = <<>>
    /\ top_sentences = <<>>
    /\ summary = <<>>
    /\ raw = <<>> /\ once = <<>> /\ twice = <<>>
    /\ FetchIdle
    /\ ApiIdle
    /\ ScrapeIdle

\* lines 43-65: up to the test that returns a short transcript as it is
SumSplit ==
    /\ pc = "summarize_text"
    /\ LET text == CollapseWhitespace(transcript)
           sentence_list == SplitIntoSentences(text, nltk)
       IN  IF ~nltk.ensure
           THEN summary' = ErrNltkUnavailable /\ pc' = "summarized"
                /\ sentences' = sentences
           ELSE IF text = <<>>
           THEN summary' = ErrEmptyTranscript /\ pc' = "summarized"
                /\ sentences' = sentences
           ELSE IF Len(sentence_list) = 0
           THEN summary' = ErrNoSentences /\ pc' = "summarized"
                /\ sentences' = sentence_list
           ELSE IF Len(sentence_list) <= max_sentences
           THEN summary' = text /\ pc' = "summarized"
                /\ sentences' = sentence_list
           ELSE summary' = summary /\ pc' = "score"
                /\ sentences' = sentence_list
    /\ UNCHANGED <<transcript, max_sentences, nltk, sentence_scores,
                   top_sentences, cleanVars, fetchVars, apiVars, scrapeVars>>

\* lines 67-113: word frequencies and sentence scores
SumScore ==
    /\ pc = "score"
    /\ IF LemmatizerRaises(sentences, nltk)
       THEN summary' = ErrSummarization /\ pc' = "summarized"
            /\ sentence_scores' = sentence_scores
       ELSE IF DOMAIN WordFreq(sentences, nltk) = {}
       THEN summary' = ErrNoMeaningfulWords /\ pc' = "summarized"
            /\ sentence_scores' = sentence_scores
       ELSE summary' = summary /\ pc' = "select"
            /\ sentence_scores' = SentenceScores(sentences, nltk)
    /\ UNCHANGED <<transcript, max_sentences, nltk, sentences, top_sentences,
                   cleanVars, fetchVars, apiVars, scrapeVars>>

\* lines 115-128: selection, order, join
SumSelect ==
    /\ pc = "select"
    /\ LET top == SortByPosition(SelectTop(sentence_scores, max_sentences), sentences)
           joined == Join(<<" ">>, [k \in 1..Len(top) |-> top[k].sentence])
       IN  /\ top_sentences' = top
           /\ summary' = IF Strip(joined) = <<>> THEN ErrGenerationFailed ELSE joined
    /\ pc' = "summarized"
    /\ UNCHANGED <<transcript, max_sentences, nltk, sentences, sentence_scores,
                   cleanVars, fetchVars, apiVars, scrapeVars>>

SumNext == SumSplit \/ SumScore \/ SumSelect

SpecSum == SumInit /\ [][SumNext]_vars

(***************************************************************************)
(* summarize_with_api, summarizer.py lines 134-210.  What happens to one   *)
(* requests.post is                                                        *)
(*   kind "timeout"        requests.exceptions.Timeout was raised          *)
(*   kind "request_error"  another RequestException was raised             *)
(*   kind "response"       a response came back: status is its             *)
(*                         status_code, body what response.json() gives:   *)
(*                         "not json" (json() raises), or a dict with the  *)
(*                         key 'choices' or without                        *)
(***************************************************************************)
\* line 147
ErrApiKeyNotFound ==
    <<CrossMark, " API key not found. Please set OPENROUTER_API_KEY in your .env file">>
\* line 207
ErrAllModelsFailed ==
    <<CrossMark, " All API models failed. Please check your API key and try again.">>

\* lines 155-160
models ==
    << "anthropic/claude-3-5-sonnet-20241022",
       "anthropic/claude-3-sonnet-20240229",
       "openai/gpt-4o",
       "openai/gpt-3.5-turbo" >>

ApiRaised(kind) == [kind |-> kind, status |-> 0, body |-> [kind |-> "none"]]
ApiStatus(status, body) == [kind |-> "response", status |-> status, body |-> body]

\* bodies of a response: a choice is a dict with the key 'message' holding
\* a dict with the key 'content', or a dict without 'message'
BodyNotJson == [kind |-> "not json"]
BodyWithoutChoices == [kind |-> "dict", has_choices |-> FALSE, choices |-> <<>>]
BodyChoices(choices) == [kind |-> "dict", has_choices |-> TRUE, choices |-> choices]
Choice(content) == [has_message |-> TRUE, content |-> content]
ChoiceWithoutMessage == [has_message |-> FALSE, content |-> <<>>]

\* 'Cats nap a lot.'
ContentCatsNap ==
    <<"C","a","t","s"," ","n","a","p"," ","a"," ","l","o","t",".">>

\* 'A dog sat.'
ContentDogSat ==
    <<"A"," ","d","o","g"," ","s","a","t",".">>

Contents == {ContentCatsNap, ContentDogSat, <<>>}

PostOutcomes ==
    { ApiRaised("timeout"), ApiRaised("request_error"),
      ApiStatus(StatusNotFound, BodyNotJson),
      ApiStatus(StatusNotFound, BodyChoices(<<Choice(ContentDogSat)>>)),
      ApiStatus(500, BodyWithoutChoices),
      ApiStatus(StatusOk, BodyNotJson),
      ApiStatus(StatusOk, BodyWithoutChoices),
      ApiStatus(StatusOk, BodyChoices(<<>>)),
      ApiStatus(StatusOk, BodyChoices(<<ChoiceWithoutMessage>>)) }
    \cup {ApiStatus(StatusOk, BodyChoices(<<Choice(c)>>)) : c \in Contents}
    \cup {ApiStatus(StatusOk, BodyChoices(<<Choice(ContentCatsNap), Choice(ContentDogSat)>>))}

\* lines 180-205: the request reaches the return of line 186.  json() that
\* raises and a choice without 'message' end in the handler of line 203.
ModelSucceeded(response) ==
    /\ response.kind = "response"
    /\ response.status = StatusOk
    /\ response.body.kind = "dict"
    /\ response.body.has_choices
    /\ Len(response.body.choices) > 0
    /\ response.body.choices[1].has_message

\* line 186
CompletionText(response) == response.body.choices[1].content

\* faulty variant of AfterModelFailure: the first failure ends the loop
AfterModelFailure_GiveUp(idx) == Len(models) + 1

\* the continue of lines 189, 192, 195, 199, 202, 205
AfterModelFailure(idx) == idx + 1

ApiKeys == {<<>>, <<"s","k","-","o","r">>}

ApiTranscripts == {<<>>, <<" ", "\n">>, SentTheCatSat, Join(<<" ">>, <<SentCatsNap, SentTheAnd>>)}

ApiInit ==
    /\ pc = "summarize_with_api"
    /\ API_KEY \in ApiKeys
    /\ transcript \in ApiTranscripts
    /\ model_idx = 1
    /\ api_calls = <<>>
    /\ api_result = <<>>
    /\ max_sentences = DefaultMaxSentences
    /\ nltk = [ensure |-> TRUE, punkt |-> TRUE, stopwords |-> TRUE, wordnet |-> TRUE]
    /\ sentences = <<>>
    /\ sentence_scores = <<>>
    /\ top_sentences = <<>>
    /\ summary = <<>>
    /\ raw = <<>> /\ once = <<>> /\ twice = <<>>
    /\ FetchIdle
    /\ ScrapeIdle

\* lines 138-160: the key and the transcript are looked at before any request
ApiStart ==
    /\ pc = "summarize_with_api"
    /\ IF API_KEY = <<>>
       THEN api_result' = ErrApiKeyNotFound /\ pc' = "api returned"
       ELSE IF Strip(transcript) = <<>>
       THEN api_result' = ErrEmptyTranscript /\ pc' = "api returned"
       ELSE api_result' = api_result /\ pc' = "models"
    /\ UNCHANGED <<API_KEY, model_idx, api_calls, cleanVars, fetchVars, sumVars,
                   scrapeVars>>

\* lines 162-205: one turn of the loop over models
PostToModel ==
    /\ pc = "models"
    /\ model_idx <= Len(models)
    /\ \E response \in PostOutcomes :
          /\ api_calls' = Append(api_calls, [model    |-> models[model_idx],
                                             response |-> response])
          /\ IF ModelSucceeded(response)
             THEN /\ api_result' = CompletionText(response)
                  /\ pc' = "api returned"
                  /\ model_idx' = model_idx
             ELSE /\ model_idx' = AfterModelFailure(model_idx)
                  /\ UNCHANGED <<api_result, pc>>
    /\ UNCHANGED <<API_KEY, cleanVars, fetchVars, sumVars, scrapeVars>>

\* line 207: the loop ran out of models
AllModelsFailed ==
    /\ pc = "models"
    /\ model_idx > Len(models)
    /\ api_result' = ErrAllModelsFailed
    /\ pc' = "api returned"
    /\ UNCHANGED <<API_KEY, model_idx, api_calls, cleanVars, fetchVars, sumVars,
                   scrapeVars>>

ApiNext == ApiStart \/ PostToModel \/ AllModelsFailed

SpecApi == ApiInit /\ [][ApiNext]_vars

(***************************************************************************)
(* get_transcript_web_scraping as a pure function: the answer of           *)
(* requests.get is drawn by Init, the action applies the function.  The    *)
(* fragments of a page are a few enumerated ones, then one fragment        *)
(* repeated, then possibly a last one.                                     *)
(***************************************************************************)
\* 'eleven char'
FragEleven ==
    <<"e","l","e","v","e","n"," ","c","h","a","r">>

FragmentPool == {FragShort, FragTenChars, FragEleven, FragHello, FragUrl}

RECURSIVE FragmentSeqs(_)
FragmentSeqs(n) ==
    IF n = 0 THEN {<<>>}
    ELSE {Append(fs, f) : fs \in FragmentSeqs(n - 1), f \in FragmentPool}

Repeat(f, n) == [k \in 1..n |-> f]

RepeatCounts == {0, 1} \cup ((MaxFragments - 1)..(MaxFragments + MaxExtra))

PageFragments ==
    { lead \o Repeat(FragHello, n) \o last :
        lead \in UNION {FragmentSeqs(k) : k \in 0..MaxLead},
        n \in RepeatCounts,
        last \in {<<>>, <<FragGoodbye>>} }

ScrapePages ==
    {WebFailure("raise"), WebFailure("http_error")}
    \cup {WebPage(c, fs) : c \in BOOLEAN, fs \in PageFragments}

ScrapeInit ==
    /\ pc = "get_transcript_web_scraping"
    /\ page \in ScrapePages
    /\ scraped = <<>>
    /\ raw = <<>> /\ once = <<>> /\ twice = <<>>
    /\ FetchIdle
    /\ SumIdle
    /\ ApiIdle

Scrape ==
    /\ pc = "get_transcript_web_scraping"
    /\ scraped' = get_transcript_web_scraping(page)
    /\ pc' = "scraped"
    /\ UNCHANGED <<page, cleanVars, fetchVars, sumVars, apiVars>>

ScrapeNext == Scrape

SpecScrape == ScrapeInit /\ [][ScrapeNext]_vars

(***************************************************************************)
(* Properties of get_transcript (SpecFetch).                               *)
(***************************************************************************)
Returned == pc \in {"returned", "shown"} /\ ui # "warning"

LastAttempt == attempts[Len(attempts)]

\* A strategy obtained caption text: it returned a value, and the value is
\* none of the strings its own failure paths return.
ObtainedText(attempt) ==
    attempt.returned # Raised /\ attempt.returned \notin StrategyFailureStrings

\* C1: for a URL with a valid id the strategies are called in the order
\* yt-dlp, direct API, web scraping, each at most once and each only after
\* all earlier ones failed the test of line 85; nothing is called after a
\* success, and the value returned on success is clean_transcript of the
\* text of the first (hence only) strategy that succeeded.
C1_StrategiesInOrder ==
    /\ Len(attempts) <= 3
    /\ \A k \in 1..Len(attempts) :
          attempts[k].method =
              <<"yt-dlp Method", "Direct API Method", "Web Scraping Method">>[k]
    /\ \A k \in 1..(Len(attempts) - 1) : ~MethodSucceeded(attempts[k].returned)
    /\ (attempts # <<>> /\ MethodSucceeded(LastAttempt.returned)) =>
          /\ Returned
          /\ result = clean_transcript(LastAttempt.returned)

C1_Witness ==
    /\ pc = "returned"
    /\ Len(attempts) = 3
    /\ MethodSucceeded(attempts[3].returned)
    /\ result = clean_transcript(attempts[3].returned)
    /\ result # attempts[3].returned

\* C2: a strategy that returns empty text counts as failed, so the loop
\* moves on to the next strategy, and get_transcript never returns the
\* empty string.
C2_EmptyTextIsFailure ==
    /\ \A k \in 1..Len(attempts) :
          attempts[k].returned = <<>> => method_idx > k
    /\ Returned => result # <<>>

\* C3: when the URL has none of the three shapes, or the id extracted from
\* it is not exactly 11 characters long, get_transcript returns one of the
\* two invalid-URL failure strings and no strategy is called.
C3_InvalidUrlNoAttempt ==
    ( /\ pc \in {"methods", "returned", "shown"}
      /\ ui # "warning"
      /\ \/ ~HasRecognizedShape(video_url)
         \/ Len(ExtractVideoId(Strip(video_url))) # VideoIdLen )
    => /\ Returned
       /\ result \in {ErrInvalidUrlFormat, ErrInvalidVideoId}
       /\ attempts = <<>>

C3_Witness ==
    /\ pc = "returned"
    /\ HasRecognizedShape(video_url)
    /\ Len(ExtractVideoId(Strip(video_url))) > VideoIdLen
    /\ result = ErrInvalidVideoId
    /\ attempts = <<>>

\* C4: a strategy that fails, by returning a failure string or by raising,
\* does not end the pipeline: once get_transcript has returned, every
\* strategy after a failed one has been called too, and when all three
\* failed the value returned is the "All transcript methods failed" string.
C4_FailureNeverEndsPipeline ==
    Returned =>
       /\ \A k \in 1..Len(attempts) :
             (~MethodSucceeded(attempts[k].returned) /\ k < 3) => Len(attempts) > k
       /\ ( /\ attempts # <<>>
            /\ \A k \in 1..Len(attempts) : ~MethodSucceeded(attempts[k].returned) )
          => (Len(attempts) = 3 /\ result = ErrAllMethodsFailed)

C4_Witness ==
    /\ pc = "returned"
    /\ result = ErrAllMethodsFailed
    /\ Len(attempts) = 3
    /\ \E k \in 1..3 : attempts[k].returned = Raised
    /\ \E k \in 1..3 : attempts[k].returned \in StrategyFailureStrings

\* C8: the returned string starts with the cross mark exactly when the
\* fetch failed: if some strategy obtained caption text the result does not
\* start with the mark, caption text is never taken for a failure of its
\* strategy, and without caption text the result starts with the mark.
C8_MarkerIffFailed ==
    Returned =>
       /\ (\E k \in 1..Len(attempts) : ObtainedText(attempts[k]))
             <=> ~StartsWith(result, <<CrossMark>>)
       /\ \A k \in 1..Len(attempts) :
             ObtainedText(attempts[k]) => MethodSucceeded(attempts[k].returned)

(***************************************************************************)
(* Properties of clean_transcript (SpecClean).                             *)
(***************************************************************************)
\* C5: clean_transcript is idempotent.
C5_Idempotent == pc = "cleaned twice" => twice = once

\* two neighbouring whitespace-separated words of s are equal ignoring case
HasAdjacentRepeat(s) ==
    LET words == SplitWords(s)
    IN  \E i \in 2..Len(words) : Lower(words[i]) = Lower(words[i - 1])

\* C6: the output of clean_transcript has no two neighbouring words that
\* are equal ignoring case.
C6_NoAdjacentRepeat == pc # "clean" => ~HasAdjacentRepeat(once)

\* "Hello world. Goodbye."
HelloGoodbyeWithPeriod ==
    <<"H","e","l","l","o"," ","w","o","r","l","d","."," ",
      "G","o","o","d","b","y","e",".">>

\* "Hello world. Goodbye"
HelloGoodbyeNoPeriod == SubSeq(HelloGoodbyeWithPeriod, 1, 20)

\* C7 as stated: sentence fragments are deduplicated and "Hello world.
\* Hello world. Goodbye." becomes exactly "Hello world. Goodbye.".
C7_HelloGoodbyeExample ==
    (pc # "clean" /\ raw = HelloGoodbye) => once = HelloGoodbyeWithPeriod

\* the trimmed, non-empty fragments between the runs of . ! ? in s
Fragments(s) ==
    LET pieces == SplitRuns(s, 1, Terminators, <<>>)
        trimmed == [k \in 1..Len(pieces) |-> Strip(pieces[k])]
    IN  SelectSeq(trimmed, LAMBDA f : f # <<>>)

\* the first occurrence of each element of xs, in the order of xs
FirstOccurrences(xs) ==
    LET firsts == {i \in 1..Len(xs) : \A j \in 1..(i - 1) : xs[j] # xs[i]}
        nth[k \in 0..Cardinality(firsts)] ==
            IF k = 0 THEN 0 ELSE Min({i \in firsts : i > nth[k - 1]})
    IN  [k \in 1..Cardinality(firsts) |-> xs[nth[k]]]

\* text that the steps before the sentence split leave as it is: no "<",
\* blanks single and inside only, no word repeated
IsPlainText(s) ==
    /\ \A i \in 1..Len(s) : s[i] # "<"
    /\ CollapseWhitespace(s) = s
    /\ ~HasAdjacentRepeat(s)

\* C7 as amended: the output consists of pairwise different fragments joined
\* by ". ", with no period after the last one; for plain text they are the
\* first occurrences of the input's fragments in their order; and "Hello
\* world. Hello world. Goodbye." becomes exactly "Hello world. Goodbye".
C7_SentencesDeduplicated ==
    pc # "clean" =>
       /\ \A i, j \in 1..Len(Fragments(once)) :
             i # j => Fragments(once)[i] # Fragments(once)[j]
       /\ once = Join(<<".", " ">>, Fragments(once))
       /\ IsPlainText(raw) => Fragments(once) = FirstOccurrences(Fragments(raw))
       /\ raw = HelloGoodbye => once = HelloGoodbyeNoPeriod

C7_Witness ==
    /\ pc = "cleaned once"
    /\ raw = HelloGoodbye
    /\ once = HelloGoodbyeNoPeriod
    /\ Len(Fragments(raw)) = 3
    /\ Len(Fragments(once)) = 2

(***************************************************************************)
(* Properties of summarize_text (SpecSum).                                 *)
(***************************************************************************)
\* summarize_text returned a summary of a transcript that has more
\* sentences than max_sentences
SummaryReturned ==
    /\ pc = "summarized"
    /\ Len(sentences) > max_sentences
    /\ ~StartsWith(summary, <<CrossMark>>)

\* C9: when a transcript with more sentences than max_sentences yields a
\* summary, the summary is the selected sentences joined in strictly
\* increasing order of their first position in the sentence sequence,
\* whatever their scores.
C9_SummaryInTranscriptOrder ==
    SummaryReturned =>
       /\ \A i, j \in 1..Len(top_sentences) :
             i < j => IndexOf(sentences, top_sentences[i].sentence)
                        < IndexOf(sentences, top_sentences[j].sentence)
       /\ summary = Join(<<" ">>, [k \in 1..Len(top_sentences) |->
                                      top_sentences[k].sentence])

C9_Witness ==
    /\ SummaryReturned
    /\ \E i, j \in 1..Len(top_sentences) :
          i < j /\ top_sentences[i].score < top_sentences[j].score

\* the text has words, and each of them, lower-cased, is in stop_words
AllWordsIn(text, stop_words) ==
    LET words == RegexWords(Lower(text))
    IN  words # <<>> /\ \A k \in 1..Len(words) : words[k] \in stop_words

\* C10 as stated, for calls whose NLTK data was ensured: a transcript
\* whose words are all stop words (of both lists) makes summarize_text
\* return the "No meaningful words" string, whatever max_sentences is.
C10_AllStopWordsNoMeaningfulWords ==
    (pc = "summarized" /\ nltk.ensure /\ AllWordsIn(transcript, FallbackStopWords))
    => summary = ErrNoMeaningfulWords

\* C10 as amended: with the NLTK data ensured, a transcript whose words are
\* all in the stop-word list in use makes summarize_text return the "No
\* meaningful words" string when it has more sentences than max_sentences,
\* and the whitespace-collapsed transcript itself when it has not.
C10_AllStopWordsByLength ==
    (pc = "summarized" /\ nltk.ensure /\ AllWordsIn(transcript, StopWords(nltk)))
    => summary = IF Len(sentences) > max_sentences
                 THEN ErrNoMeaningfulWords
                 ELSE CollapseWhitespace(transcript)

C10_Witness ==
    /\ pc = "summarized"
    /\ nltk.ensure
    /\ AllWordsIn(transcript, StopWords(nltk))
    /\ max_sentences >= 1
    /\ Len(sentences) > max_sentences
    /\ summary = ErrNoMeaningfulWords

\* the sum, over the filtered words of the sentence, of the number of times
\* the word occurs among the filtered words of all the sentences
FrequencySum(sentence) ==
    LET words == SentenceWords(sentence, nltk)
        WordsOf(k) == SentenceWords(sentences[k], nltk)
        triples == UNION {{<<i, k, j>> : j \in 1..Len(WordsOf(k))} :
                             i \in 1..Len(words), k \in 1..Len(sentences)}
    IN  Cardinality({t \in triples : WordsOf(t[2])[t[3]] = words[t[1]]})

DistinctSentences == {sentences[k] : k \in 1..Len(sentences)}

Selected == {top_sentences[k].sentence : k \in 1..Len(top_sentences)}

\* x is ahead of y: a higher score, or the same score and an earlier
\* (first) position in the transcript
Ahead(x, y) ==
    \/ FrequencySum(x) > FrequencySum(y)
    \/ /\ FrequencySum(x) = FrequencySum(y)
       /\ IndexOf(sentences, x) < IndexOf(sentences, y)

\* every selected sentence carries its frequency sum as score and is ahead
\* of every sentence that was not selected
SelectedAreHighest ==
    /\ Selected \subseteq DistinctSentences
    /\ \A k \in 1..Len(top_sentences) :
          top_sentences[k].score = FrequencySum(top_sentences[k].sentence)
    /\ \A x \in Selected, y \in DistinctSentences \ Selected : Ahead(x, y)

\* C13 as stated: when summarize_text, called with max_sentences >= 1 on a
\* transcript of more than max_sentences sentences, produces a summary, it
\* has selected exactly max_sentences sentences, they are the highest
\* scoring ones, and a tie at the cut goes to the earlier sentence.
C13_ExactlyMaxSentences ==
    (SummaryReturned /\ max_sentences >= 1) =>
       /\ Len(top_sentences) = max_sentences
       /\ Cardinality(Selected) = max_sentences
       /\ SelectedAreHighest

\* C13 as amended: the selection is made among the distinct sentences, so it
\* has max_sentences sentences, or all the distinct ones when there are
\* fewer of them; they are the highest scoring ones, and a tie at the cut
\* goes to the sentence whose first occurrence is earlier.
C13_TopDistinctSentences ==
    (SummaryReturned /\ max_sentences >= 1) =>
       /\ Len(top_sentences) = Min({max_sentences, Cardinality(DistinctSentences)})
       /\ Cardinality(Selected) = Len(top_sentences)
       /\ SelectedAreHighest

\* a tie at the cut: a sentence left out has the score of a selected one,
\* and another sentence of the transcript scores higher than both
C13_Witness ==
    /\ SummaryReturned
    /\ max_sentences >= 1
    /\ \E x \in Selected, y \in DistinctSentences \ Selected :
          /\ FrequencySum(x) = FrequencySum(y)
          /\ \E z \in Selected :
                /\ FrequencySum(z) > FrequencySum(x)
                /\ IndexOf(sentences, z) > IndexOf(sentences, y)

\* some sentence of the text keeps a word after the filter of lines 86-90
HasContentWord(text, res) ==
    LET sentence_list == SplitIntoSentences(text, res)
    IN  \E k \in 1..Len(sentence_list) : SentenceWords(sentence_list[k], res) # <<>>

\* C11, for the calls in which no download raised: whichever of the
\* tokenizer data, the stop-word list and the wordnet data are missing,
\* summarize_text called with max_sentences >= 1 on a transcript that has
\* more sentences than max_sentences and at least one content word returns a
\* summary and not a string that starts with the cross mark.
C11_FallbacksGiveSummary ==
    LET text == CollapseWhitespace(transcript)
    IN  ( /\ pc = "summarized"
          /\ nltk.ensure
          /\ max_sentences >= 1
          /\ Len(SplitIntoSentences(text, nltk)) > max_sentences
          /\ HasContentWord(text, nltk) )
        => ~StartsWith(summary, <<CrossMark>>)

(***************************************************************************)
(* Properties of summarize_with_api (SpecApi).                             *)
(***************************************************************************)
\* the request got status 200 and a body whose first choice has a message
IsCompletion(call) ==
    \E c \in Contents, rest \in {<<>>, <<Choice(ContentDogSat)>>} :
        call.response = ApiStatus(200, BodyChoices(<<Choice(c)>> \o rest))

\* C12: with an API key and a transcript that is not blank, the requests
\* made so far went to the models in list order, every request before the
\* last one failed, and the call has returned only in one of two ways: the
\* last request is a completion and its text is the result, or all the
\* models of the list were tried, none completed, and the result is the
\* "All API models failed" string.
C12_ModelsInOrder ==
    (API_KEY # <<>> /\ Strip(transcript) # <<>>) =>
       /\ Len(api_calls) <= Len(models)
       /\ \A k \in 1..Len(api_calls) :
             /\ api_calls[k].model = models[k]
             /\ k < Len(api_calls) => ~IsCompletion(api_calls[k])
       /\ pc = "api returned" =>
             \/ /\ api_calls # <<>>
                /\ IsCompletion(api_calls[Len(api_calls)])
                /\ api_result
                     = api_calls[Len(api_calls)].response.body.choices[1].content
             \/ /\ Len(api_calls) = Len(models)
                /\ \A k \in 1..Len(api_calls) : ~IsCompletion(api_calls[k])
                /\ api_result = ErrAllModelsFailed

\* the third model completed after a timeout and a malformed answer
C12_Witness ==
    /\ pc = "api returned"
    /\ Len(api_calls) = 3
    /\ api_calls[1].response.kind = "timeout"
    /\ api_calls[2].response = ApiStatus(200, BodyChoices(<<ChoiceWithoutMessage>>))
    /\ api_result = ContentCatsNap

(***************************************************************************)
(* Properties of get_transcript_web_scraping (SpecScrape).                 *)
(***************************************************************************)
StartsLikeUrl(t) == Len(t) >= 4 /\ SubSeq(t, 1, 4) = <<"h","t","t","p">>

\* the fragments of the page of at least n characters that do not start
\* like a URL, in order of appearance
KeptOfLength(n) ==
    SelectSeq(page.fragments, LAMBDA t : Len(t) >= n /\ ~StartsLikeUrl(t))

\* the first 50 of the fragments, joined by blanks
FirstFifty(fragments) ==
    Join(<<" ">>, SubSeq(fragments, 1, Min({50, Len(fragments)})))

\* the page was fetched and holds caption data
PageScraped == pc = "scraped" /\ page.kind = "page" /\ page.captions

\* C14 as stated: the strategy keeps the fragments of 10 characters or more
\* that do not start like a URL, discards the others, and returns the first
\* 50 kept fragments in order of appearance.
C14_KeepsTenOrMore ==
    (PageScraped /\ KeptOfLength(10) # <<>>)
    => scraped = FirstFifty(KeptOfLength(10))

\* C14 as amended: the strategy keeps the fragments of 11 characters or more
\* that do not start with "http", discards the others (a fragment of exactly
\* 10 characters too), and returns the first 50 kept fragments in order of
\* appearance; with no kept fragment it returns a failure string.
C14_KeepsElevenOrMore ==
    PageScraped =>
       IF KeptOfLength(11) # <<>>
       THEN scraped = FirstFifty(KeptOfLength(11))
       ELSE scraped = ErrWebScrapingFailed

\* a page with a fragment of 10 characters and more than 50 fragments to keep
C14_Witness ==
    /\ PageScraped
    /\ \E k \in 1..Len(page.fragments) : Len(page.fragments[k]) = 10
    /\ Len(KeptOfLength(11)) > 50
    /\ page.fragments[Len(page.fragments)] = FragGoodbye
    /\ scraped = FirstFifty(KeptOfLength(11))

=============================================================================
